---- MODULE Spec2Model ----
(***************************************************************************)
(* Cache-and-relay subsystem of livepeer-handler.py: the Cache Filler      *)
(* (fetch_and_cache_hls), with its inline playlist rewrite and segment     *)
(* fetch, run repeatedly against a local filesystem and a remote origin    *)
(* whose answers are chosen by the environment.                            *)
(*                                                                         *)
(* Strings are TLA+ strings; the Python string and path functions the code *)
(* calls are operators that compute what the Python functions compute.     *)
(***************************************************************************)
EXTENDS Integers, Sequences, FiniteSets, TLC

(***************************************************************************)
(* Module-level configuration of livepeer-handler.py                       *)
(***************************************************************************)
LOCAL_CACHE_DIR == "./cache/livepeer"
LOCAL_PLAYBACK_URL_BASE == "http://localhost:8080/cache/"

(***************************************************************************)
(* Bounds                                                                  *)
(***************************************************************************)
\* number of times fetch_and_cache_hls is run against the same cache root
MaxRuns == 2
\* number of lines of the playlists drawn for the rewrite specification
MaxRwLines == 2

(***************************************************************************)
(* Python str methods                                                      *)
(***************************************************************************)
\* str.startswith(prefix)
StartsWith(s, p) == Len(s) >= Len(p) /\ SubSeq(s, 1, Len(p)) = p

\* str.endswith(suffix)
EndsWith(s, p) == Len(s) >= Len(p) /\ SubSeq(s, Len(s) - Len(p) + 1, Len(s)) = p

\* s[i:] for a 1-based index i
From(s, i) == SubSeq(s, i, Len(s))

\* the 1-based indices at which sub occurs in s
Occurrences(s, sub) ==
    { i \in 1..(Len(s) - Len(sub) + 1) : SubSeq(s, i, i + Len(sub) - 1) = sub }

\* str.find(sub): 1-based index of the leftmost occurrence, 0 when there is none
Find(s, sub) ==
    LET occ == Occurrences(s, sub)
    IN  IF occ = {} THEN 0 ELSE CHOOSE i \in occ : \A j \in occ : i <= j

\* str.rfind(sub): 1-based index of the rightmost occurrence, 0 when there is none
RFind(s, sub) ==
    LET occ == Occurrences(s, sub)
    IN  IF occ = {} THEN 0 ELSE CHOOSE i \in occ : \A j \in occ : i >= j

\* str.replace(old, new) for a non-empty old: the occurrences are taken from
\* the left and do not overlap; the text put in is not scanned again
RECURSIVE Replace(_, _, _)
Replace(s, old, new) ==
    LET i == Find(s, old)
    IN  IF i = 0 THEN s
        ELSE SubSeq(s, 1, i - 1) \o new \o Replace(From(s, i + Len(old)), old, new)

\* url.rsplit('/', 1)[0]: the text before the last "/", the whole text when
\* it has no "/"
RSplitHead(s) ==
    LET i == RFind(s, "/")
    IN  IF i = 0 THEN s ELSE SubSeq(s, 1, i - 1)

\* index of the first line boundary of s, 0 when there is none
FindBreak(s) ==
    LET brk == Occurrences(s, "\n") \cup Occurrences(s, "\r")
    IN  IF brk = {} THEN 0 ELSE CHOOSE i \in brk : \A j \in brk : i <= j

\* str.splitlines(): lines end at "\n", "\r" or "\r\n"; the line ends are
\* dropped and a final line end opens no empty line
RECURSIVE SplitLines(_)
SplitLines(s) ==
    IF s = "" THEN << >>
    ELSE LET i == FindBreak(s)
         IN  IF i = 0 THEN << s >>
             ELSE LET w == IF i < Len(s) /\ SubSeq(s, i, i + 1) = "\r\n" THEN 2 ELSE 1
                  IN  << SubSeq(s, 1, i - 1) >> \o SplitLines(From(s, i + w))

(***************************************************************************)
(* Python os.path functions and the filesystem calls of the code           *)
(***************************************************************************)
\* working directory of the process; LOCAL_CACHE_DIR is relative to it
CWD == "/app"

\* os.path.join(a, b): an absolute b replaces a
OsPathJoin(a, b) ==
    IF StartsWith(b, "/") THEN b
    ELSE IF a = "" \/ EndsWith(a, "/") THEN a \o b
    ELSE a \o "/" \o b

\* path.split("/")
RECURSIVE SplitSlash(_)
SplitSlash(s) ==
    LET i == Find(s, "/")
    IN  IF i = 0 THEN << s >>
        ELSE << SubSeq(s, 1, i - 1) >> \o SplitSlash(From(s, i + 1))

\* "/".join(comps)
RECURSIVE JoinSlash(_)
JoinSlash(cs) ==
    IF cs = << >> THEN ""
    ELSE IF Len(cs) = 1 THEN cs[1]
    ELSE cs[1] \o "/" \o JoinSlash(Tail(cs))

\* the component loop of os.path.normpath: empty and "." components are
\* dropped, ".." removes the component before it (and is dropped at the root)
RECURSIVE NormComps(_, _, _)
NormComps(cs, st, abs) ==
    IF cs = << >> THEN st
    ELSE LET c == Head(cs)
         IN  IF c \in {"", "."} THEN NormComps(Tail(cs), st, abs)
             ELSE IF c /= ".." THEN NormComps(Tail(cs), Append(st, c), abs)
             ELSE IF st /= << >> /\ st[Len(st)] /= ".."
                  THEN NormComps(Tail(cs), SubSeq(st, 1, Len(st) - 1), abs)
             ELSE IF abs THEN NormComps(Tail(cs), st, abs)
             ELSE NormComps(Tail(cs), Append(st, ".."), abs)

\* os.path.normpath(p)
NormPath(p) ==
    LET abs  == StartsWith(p, "/")
        body == JoinSlash(NormComps(SplitSlash(p), << >>, abs))
    IN  IF abs THEN "/" \o body
        ELSE IF body = "" THEN "." ELSE body

\* os.path.abspath(p) = normpath(join(getcwd(), p)); the filesystem below is
\* keyed by absolute paths
AbsPath(p) == NormPath(OsPathJoin(CWD, p))

\* os.path.dirname(p) of an absolute normalised path
Dirname(p) ==
    LET i == RFind(p, "/")
    IN  IF i <= 1 THEN "/" ELSE SubSeq(p, 1, i - 1)

\* the directories os.makedirs(p) walks through: p and every ancestor of it
RECURSIVE Ancestors(_)
Ancestors(p) ==
    IF p = "/" THEN {"/"} ELSE {p} \cup Ancestors(Dirname(p))

\* The filesystem is a map from the absolute paths of the regular files to
\* their contents and a set of absolute paths of directories; the operators
\* below take paths already made absolute by AbsPath.

\* os.path.exists: a file or a directory is there
Exists(fs, ds, key) == key \in DOMAIN fs \/ key \in ds

\* os.makedirs(p, exist_ok=True) raises (FileExistsError, NotADirectoryError)
\* when p or an ancestor of p is a regular file; chain is Ancestors(AbsPath(p))
MakeDirsRaises(fs, chain) == chain \cap DOMAIN fs /= {}

\* the directories present after os.makedirs(p, exist_ok=True) returned
MakeDirs(ds, chain) == ds \cup chain

(***************************************************************************)
(* Inputs: the playback descriptors handed to fetch_and_cache_hls and the  *)
(* playlists the origin serves for them                                    *)
(***************************************************************************)
\* profile names of the descriptor, in order (two of the three profiles
\* stream_video_to_livepeer asks for)
ProfileNames == << "720p", "480p" >>

\* playbackId of the allocated stream
PlaybackId == "abc"

\* playback URL create_stream gives a profile
ProfileUrl(name) ==
    "https://cdn.livepeer.studio/hls/" \o PlaybackId \o "/" \o name \o "/index.m3u8"

\* a descriptor: every profile of ProfileNames, those of withUrl with a URL
Playback(withUrl) ==
    [i \in 1..Len(ProfileNames) |->
        [name |-> ProfileNames[i],
         url  |-> IF i \in withUrl THEN ProfileUrl(ProfileNames[i]) ELSE ""]]

\* the remote directory of the 720p playlist, as it appears in absolute URIs
Origin720 == "https://cdn.livepeer.studio/hls/abc/720p/"

\* two segments (the end-to-end scenario of the specification)
PlaylistA == "#EXTM3U\n#EXT-X-VERSION:3\nseg0.ts\nseg1.ts\n"
\* three segments, one in a subdirectory
PlaylistB == "#EXTM3U\nseg0.ts\nsub/seg1.ts\nseg2.ts\n"
\* a key directive with an absolute URI, a segment given by its absolute URI,
\* a comment that ends in .ts and a line that is no reference
PlaylistC ==
    "#EXTM3U\n#EXT-X-KEY:METHOD=AES-128,URI=\"" \o Origin720 \o "key.bin\"\n"
        \o Origin720 \o "seg0.ts\n#prev/seg9.ts\nnotes.txt\n"
\* a nested playlist, a segment listed twice, CRLF line ends, no final line end
PlaylistD == "low/index.m3u8\r\nseg0.ts\r\nseg0.ts"
\* an empty playlist
PlaylistE == ""

\* a reference that starts with "/" and one that climbs out with ".."
PlaylistF == "/srv/abs.ts\n../../up.ts\n"

Playlists == {PlaylistA, PlaylistB, PlaylistC, PlaylistD, PlaylistE, PlaylistF}

\* the playlists the origin serves for the two profiles
Served(p720, p480) == ("720p" :> p720) @@ ("480p" :> p480)

\* the sessions explored: a descriptor and what the origin serves for it
Scenarios ==
    { [playback |-> Playback({1, 2}), origin |-> Served(PlaylistB, PlaylistA)],
      [playback |-> Playback({1, 2}), origin |-> Served(PlaylistC, PlaylistC)],
      [playback |-> Playback({1, 2}), origin |-> Served(PlaylistD, PlaylistE)],
      [playback |-> Playback({1, 2}), origin |-> Served(PlaylistA, PlaylistD)],
      [playback |-> Playback({2}),    origin |-> Served(PlaylistE, PlaylistA)],
      [playback |-> Playback({1}),    origin |-> Served(PlaylistC, PlaylistE)],
      [playback |-> Playback({1}),    origin |-> Served(PlaylistF, PlaylistE)],
      [playback |-> Playback({}),     origin |-> Served(PlaylistE, PlaylistE)] }

\* body the origin serves for a segment URL
SegmentBytes(url) == "<" \o url \o ">"

\* how the origin and the local disk answer a playlist fetch: status 200,
\* another status, an aiohttp.ClientError, or an exception of another class
\* while the playlist is stored (OSError from aiofiles.open)
PlaylistOutcomes == {"ok", "status", "clienterror", "oserror"}

\* how they answer a segment fetch: as above, and an aiohttp.ClientError
\* raised by segment_resp.read() after a 200 status
SegmentOutcomes == {"ok", "status", "clienterror", "body_clienterror", "oserror"}

(***************************************************************************)
(* Decisions of fetch_and_cache_hls                                        *)
(***************************************************************************)
\* (mutant) CACHE_ENABLED is not looked at
CachingOff_Ignored(enabled) == FALSE

\* line 145: the early return when caching is switched off
CachingOff(enabled) == ~enabled

\* line 164
ProfileDir(name) == OsPathJoin(LOCAL_CACHE_DIR, name)

\* line 171
LocalPlaylistPath(name) == OsPathJoin(ProfileDir(name), "index.m3u8")

\* line 174
BaseUrl(playlist_url) == RSplitHead(playlist_url)

\* (mutant) only the first occurrence is replaced (str.replace(old, new, 1))
ModifiedContent_FirstOnly(playlist_content, playlist_url, name) ==
    LET old == BaseUrl(playlist_url) \o "/"
        i   == Find(playlist_content, old)
    IN  IF i = 0 THEN playlist_content
        ELSE SubSeq(playlist_content, 1, i - 1)
                 \o LOCAL_PLAYBACK_URL_BASE \o name \o "/"
                 \o From(playlist_content, i + Len(old))

\* lines 175-178
ModifiedContent(playlist_content, playlist_url, name) ==
    Replace(playlist_content, BaseUrl(playlist_url) \o "/",
            LOCAL_PLAYBACK_URL_BASE \o name \o "/")

\* (mutant) the map is given the remote playlist URL
LocalUrl_Remote(name) == ProfileUrl(name)

\* line 183
LocalUrl(name) == LOCAL_PLAYBACK_URL_BASE \o name \o "/index.m3u8"

\* (mutant) nested playlists are left out
IsReference_TsOnly(line) == EndsWith(line, ".ts") /\ ~StartsWith(line, "#")

\* (mutant) comment lines are not passed over
IsReference_NoCommentSkip(line) == EndsWith(line, ".ts") \/ EndsWith(line, ".m3u8")

\* lines 187-190: the lines whose segment is downloaded
IsReference(line) ==
    /\ EndsWith(line, ".ts") \/ EndsWith(line, ".m3u8")
    /\ ~StartsWith(line, "#")

\* line 192
SegmentUrl(playlist_url, line) == BaseUrl(playlist_url) \o "/" \o line

\* line 193
LocalSegmentPath(name, line) == OsPathJoin(ProfileDir(name), line)

\* (mutant) an empty file does not count as cached
SegmentCached_NonEmptyFile(fs, ds, key) == key \in DOMAIN fs /\ fs[key] /= ""

\* (mutant) the existence check is missing
SegmentCached_Never(fs, ds, key) == FALSE

\* line 198: the segment is not downloaded when its path exists
SegmentCached(fs, ds, key) == Exists(fs, ds, key)

\* (mutant) the try around the segment download is missing
SegmentHandlerCatches_Nothing(outcome) == FALSE

\* line 207: the handler around one segment download
SegmentHandlerCatches(outcome) == outcome \in {"clienterror", "body_clienterror"}

\* line 211: the handler around one profile
ProfileHandlerCatches(outcome) == outcome \in {"clienterror", "body_clienterror"}

EmptyMap == [n \in {} |-> ""]

Range(f) == { f[i] : i \in DOMAIN f }

\* every line of every playlist the origin serves
AllLines == UNION { Range(SplitLines(c)) : c \in Playlists }

\* What lines 164-183 compute for a profile: the directories os.makedirs
\* walks through for profile_dir, the absolute path of index.m3u8, the lines
\* of each playlist text and the text written for it.  (The values depend on
\* the profile and the text only and are tabulated once.)
ProfilePlan ==
    [n \in Range(ProfileNames) |->
        [chain    |-> Ancestors(AbsPath(ProfileDir(n))),
         key      |-> AbsPath(LocalPlaylistPath(n)),
         local    |-> LocalUrl(n),
         modified |-> [c \in Playlists |-> ModifiedContent(c, ProfileUrl(n), n)]]]

\* playlist_content.splitlines() for each playlist text
LinesOf == [c \in Playlists |-> SplitLines(c)]

\* What lines 187-196 compute for one line of a profile's playlist: whether
\* it is downloaded, the URL requested, the absolute local path and the
\* directories os.makedirs walks through for its parent directory.
SegmentPlan ==
    [n \in Range(ProfileNames) |->
        [l \in AllLines |->
            [reference |-> IsReference(l),
             url       |-> SegmentUrl(ProfileUrl(n), l),
             key       |-> AbsPath(LocalSegmentPath(n, l)),
             chain     |-> Ancestors(Dirname(AbsPath(LocalSegmentPath(n, l))))]]]

\* the directories os.makedirs walks through for the cache root (line 150)
CacheRootChain == Ancestors(AbsPath(LOCAL_CACHE_DIR))

(***************************************************************************)
(* State                                                                   *)
(***************************************************************************)
VARIABLES
    cacheEnabled,   \* CACHE_ENABLED
    playback,       \* the argument playback_urls
    origin,         \* the playlist text the origin serves for each profile
    files,          \* regular files on disk: absolute path -> contents
    dirs,           \* directories on disk: set of absolute paths
    pc,             \* position of fetch_and_cache_hls
    run,            \* number of runs of fetch_and_cache_hls started so far
    pi,             \* index of the profile of the outer loop
    li,             \* index of the line of the inner loop
    lines,          \* playlist_content.splitlines() of the current profile
    local_urls,     \* the dictionary local_urls
    net,            \* session.get calls issued in the current run, in order
    refs,           \* lines of the current playlist that reached line 192
    seg_failed,     \* local paths whose download failed in the current run
    prev_urls,      \* the dictionary the previous run returned
    warm,           \* the current run started with every profile cached
    error,          \* the exception fetch_and_cache_hls raised, and where
    rw,             \* input and result of one playlist rewrite
    site,           \* the TCPSite of serve_cached_content
    resp,           \* the response handle returned last, and for what
    handled,        \* number of requests handle has answered
    prev_status,    \* status of the response before the last one, 0 for none
    session,        \* stream_video_to_livepeer: position, locals and tasks
    conf,           \* pipeline.py: environment, config file and self.config
    pipe            \* pipeline.py: position, arguments and result of process_video

vars == << cacheEnabled, playback, origin, files, dirs, pc, run, pi, li, lines,
           local_urls, net, refs, seg_failed, prev_urls, warm, error, rw,
           site, resp, handled, prev_status, session, conf, pipe >>

\* the state of fetch_and_cache_hls, of the server and of the session
fillVars == << cacheEnabled, playback, origin, files, dirs, pc, run, pi, li, lines,
               local_urls, net, refs, seg_failed, prev_urls, warm, error >>
serverVars == << site, resp, handled, prev_status >>
relayVars == << site, resp, handled, prev_status, session >>
pipeVars == << conf, pipe >>

NoError == [class |-> "", at |-> ""]

\* directories that exist before the first run
InitialDirs == Ancestors(AbsPath(CWD))

RwIdle == [state |-> "idle"]

NoResponse ==
    [filename |-> "", read |-> "", status |-> 0, content_type |-> "", body |-> ""]

\* stream_video_to_livepeer was not called
NoSession == [pc |-> "none"]

\* pipeline.py is not run
NoConfig == [state |-> "none"]
NoPipeline == [pc |-> "none"]

PipeIdle ==
    /\ conf = NoConfig
    /\ pipe = NoPipeline

\* no server was started, no session was started
RelayIdle ==
    /\ site = "down"
    /\ resp = NoResponse
    /\ handled = 0
    /\ prev_status = 0
    /\ session = NoSession

\* every profile that has a URL has its playlist and each line the loop
\* downloads on disk
FullyCached(fs, ds) ==
    \A i \in 1..Len(playback) :
        playback[i].url /= "" =>
            LET n  == playback[i].name
                ls == LinesOf[origin[n]]
            IN  /\ ProfilePlan[n].key \in DOMAIN fs
                /\ \A k \in 1..Len(ls) :
                       SegmentPlan[n][ls[k]].reference =>
                           Exists(fs, ds, SegmentPlan[n][ls[k]].key)

\* the state before the first call, but for the inputs
FillIdle ==
    /\ files = EmptyMap
    /\ dirs = InitialDirs
    /\ pc = "idle"
    /\ run = 0
    /\ pi = 0
    /\ li = 0
    /\ lines = << >>
    /\ local_urls = EmptyMap
    /\ net = << >>
    /\ refs = << >>
    /\ seg_failed = {}
    /\ prev_urls = EmptyMap
    /\ warm = FALSE
    /\ error = NoError

Init ==
    /\ cacheEnabled \in BOOLEAN
    /\ \E sc \in Scenarios :
           /\ playback = sc.playback
           /\ origin = sc.origin
    /\ FillIdle
    /\ rw = RwIdle
    /\ PipeIdle
    /\ RelayIdle

(***************************************************************************)
(* fetch_and_cache_hls, one action per stretch between two awaits          *)
(***************************************************************************)
\* lines 143-154: a call of fetch_and_cache_hls; returns {} at once when
\* caching is off, makes the cache root otherwise
FillStart ==
    /\ pc \in {"idle", "returned", "raised"}
    /\ run < MaxRuns
    /\ run' = run + 1
    /\ net' = << >>
    /\ refs' = << >>
    /\ seg_failed' = {}
    /\ lines' = << >>
    /\ li' = 0
    /\ local_urls' = EmptyMap
    /\ prev_urls' = local_urls
    /\ warm' = (/\ pc = "returned"
                /\ FullyCached(files, dirs)
                /\ \A i \in 1..Len(playback) :
                       playback[i].url /= "" => playback[i].name \in DOMAIN local_urls)
    /\ IF CachingOff(cacheEnabled)
       THEN /\ pc' = "returned"
            /\ pi' = 0
            /\ dirs' = dirs
            /\ error' = NoError
       ELSE IF MakeDirsRaises(files, CacheRootChain)
       THEN /\ pc' = "raised"
            /\ pi' = 0
            /\ dirs' = dirs
            /\ error' = [class |-> "OSError", at |-> "makedirs"]
       ELSE /\ pc' = "profile"
            /\ pi' = 1
            /\ dirs' = MakeDirs(dirs, CacheRootChain)
            /\ error' = NoError
    /\ UNCHANGED << cacheEnabled, playback, origin, files, rw, pipeVars, relayVars >>

\* lines 155-157: a profile without URL is passed over
SkipProfile ==
    /\ pc = "profile"
    /\ pi <= Len(playback)
    /\ playback[pi].url = ""
    /\ pi' = pi + 1
    /\ UNCHANGED << cacheEnabled, playback, origin, files, dirs, pc, run, li, lines,
                    local_urls, net, refs, seg_failed, prev_urls, warm, error, rw, pipeVars, relayVars >>

\* lines 159-183 and 209-212: the profile directory is made, the playlist is
\* requested and, on status 200, rewritten, stored and entered in local_urls;
\* another status and an exception line 211 catches end the profile, any
\* other exception leaves fetch_and_cache_hls
FetchPlaylist ==
    /\ pc = "profile"
    /\ pi <= Len(playback)
    /\ playback[pi].url /= ""
    /\ LET name == playback[pi].name
           plan == ProfilePlan[name]
       IN  IF MakeDirsRaises(files, plan.chain)
           THEN /\ pc' = "raised"
                /\ error' = [class |-> "OSError", at |-> "makedirs"]
                /\ UNCHANGED << files, dirs, pi, li, lines, local_urls, net, refs >>
           ELSE
             /\ dirs' = MakeDirs(dirs, plan.chain)
             /\ refs' = << >>
             /\ \E outcome \in PlaylistOutcomes :
                  /\ net' = Append(net, [kind |-> "playlist", name |-> name,
                                         line |-> "", url |-> playback[pi].url,
                                         ok |-> outcome = "ok"])
                  /\ IF outcome = "ok" /\ plan.key \notin dirs
                     THEN /\ files' = (plan.key :> plan.modified[origin[name]]) @@ files
                          /\ local_urls' = (name :> plan.local) @@ local_urls
                          /\ lines' = LinesOf[origin[name]]
                          /\ li' = 1
                          /\ pc' = "lines"
                          /\ pi' = pi
                          /\ error' = NoError
                     ELSE IF outcome = "status"
                             \/ (outcome = "clienterror" /\ ProfileHandlerCatches(outcome))
                     THEN /\ pi' = pi + 1
                          /\ error' = NoError
                          /\ UNCHANGED << files, local_urls, lines, li, pc >>
                     ELSE /\ pc' = "raised"
                          /\ error' = [class |-> IF outcome = "clienterror"
                                                    THEN "ClientError" ELSE "OSError",
                                       at    |-> "playlist"]
                          /\ UNCHANGED << files, local_urls, lines, li, pi >>
    /\ UNCHANGED << cacheEnabled, playback, origin, run, seg_failed, prev_urls, warm, rw, pipeVars, relayVars >>

\* lines 186-190: a line that is no reference is passed over
OtherLine ==
    /\ pc = "lines"
    /\ li <= Len(lines)
    /\ ~SegmentPlan[playback[pi].name][lines[li]].reference
    /\ li' = li + 1
    /\ UNCHANGED << cacheEnabled, playback, origin, files, dirs, pc, run, pi, lines,
                    local_urls, net, refs, seg_failed, prev_urls, warm, error, rw, pipeVars, relayVars >>

\* lines 192-198: the directory of a reference is made; the reference is
\* passed over when its local path exists
CachedSegment ==
    /\ pc = "lines"
    /\ li <= Len(lines)
    /\ LET plan == SegmentPlan[playback[pi].name][lines[li]]
           made == MakeDirs(dirs, plan.chain)
       IN  /\ plan.reference
           /\ IF MakeDirsRaises(files, plan.chain)
              THEN /\ pc' = "raised"
                   /\ error' = [class |-> "OSError", at |-> "makedirs"]
                   /\ UNCHANGED << dirs, li, refs >>
              ELSE /\ SegmentCached(files, made, plan.key)
                   /\ dirs' = made
                   /\ refs' = Append(refs, [line |-> lines[li], how |-> "cached"])
                   /\ li' = li + 1
                   /\ UNCHANGED << pc, error >>
    /\ UNCHANGED << cacheEnabled, playback, origin, files, run, pi, lines,
                    local_urls, net, seg_failed, prev_urls, warm, rw, pipeVars, relayVars >>

\* lines 192-208: the directory of a reference is made and, its local path
\* not existing, the segment is requested and written; another status and an
\* exception line 207 catches end the line, an exception line 211 catches
\* ends the profile, any other exception leaves fetch_and_cache_hls
FetchSegment ==
    /\ pc = "lines"
    /\ li <= Len(lines)
    /\ LET name == playback[pi].name
           plan == SegmentPlan[name][lines[li]]
           made == MakeDirs(dirs, plan.chain)
       IN  /\ plan.reference
           /\ ~MakeDirsRaises(files, plan.chain)
           /\ ~SegmentCached(files, made, plan.key)
           /\ dirs' = made
           /\ refs' = Append(refs, [line |-> lines[li], how |-> "fetch"])
           /\ \E outcome \in SegmentOutcomes :
                /\ net' = Append(net, [kind |-> "segment", name |-> name,
                                       line |-> lines[li], url |-> plan.url,
                                       ok |-> outcome = "ok"])
                \* line 203 opens (creates) the file before line 204 reads
                \* the body: a failed read leaves the file empty
                /\ files' = IF outcome = "ok"
                               THEN (plan.key :> SegmentBytes(plan.url)) @@ files
                            ELSE IF outcome = "body_clienterror"
                               THEN (plan.key :> "") @@ files
                            ELSE files
                /\ seg_failed' = IF outcome = "ok"
                                    THEN seg_failed \ {plan.key}
                                    ELSE seg_failed \cup {plan.key}
                /\ IF outcome \in {"ok", "status"} \/ SegmentHandlerCatches(outcome)
                   THEN /\ li' = li + 1
                        /\ UNCHANGED << pc, pi, error >>
                   ELSE IF ProfileHandlerCatches(outcome)
                   THEN /\ pc' = "profile"
                        /\ pi' = pi + 1
                        /\ UNCHANGED << li, error >>
                   ELSE /\ pc' = "raised"
                        /\ error' = [class |-> IF outcome = "oserror"
                                                  THEN "OSError" ELSE "ClientError",
                                     at    |-> "segment"]
                        /\ UNCHANGED << pi, li >>
    /\ UNCHANGED << cacheEnabled, playback, origin, run, lines, local_urls,
                    prev_urls, warm, rw, pipeVars, relayVars >>

\* the inner loop is through: the outer loop goes on to the next profile
EndOfPlaylist ==
    /\ pc = "lines"
    /\ li > Len(lines)
    /\ pc' = "profile"
    /\ pi' = pi + 1
    /\ UNCHANGED << cacheEnabled, playback, origin, files, dirs, run, li, lines,
                    local_urls, net, refs, seg_failed, prev_urls, warm, error, rw, pipeVars, relayVars >>

\* line 214
FillReturn ==
    /\ pc = "profile"
    /\ pi > Len(playback)
    /\ pc' = "returned"
    /\ UNCHANGED << cacheEnabled, playback, origin, files, dirs, run, pi, li, lines,
                    local_urls, net, refs, seg_failed, prev_urls, warm, error, rw, pipeVars, relayVars >>

Next ==
    \/ FillStart
    \/ SkipProfile
    \/ FetchPlaylist
    \/ OtherLine
    \/ CachedSegment
    \/ FetchSegment
    \/ EndOfPlaylist
    \/ FillReturn

Spec == Init /\ [][Next]_vars

(***************************************************************************)
(* Properties of the Cache Filler                                          *)
(***************************************************************************)
\* profiles of the descriptor that have a URL
WithUrl == { i \in 1..Len(playback) : playback[i].url /= "" }

\* local paths of all lines the loop downloads
SegmentKeys ==
    { SegmentPlan[n][l].key : n \in Range(ProfileNames),
                              l \in { x \in AllLines : IsReference(x) } }

\* the session.get calls of the current run for playlists
PlaylistRequests == { k \in 1..Len(net) : net[k].kind = "playlist" }

\* C1 as stated: a run that starts with every playlist and every referenced
\* segment cached issues no network fetch at all and returns the map of the
\* run before it.
C1_WarmRunIssuesNoFetch ==
    (warm /\ pc = "returned") => (net = << >> /\ local_urls = prev_urls)

\* C1 as amended: a run that starts with every playlist and every referenced
\* segment cached issues no segment fetch; it requests each profile's playlist
\* once more, and the map it returns agrees with the map of the run before it
\* on every profile whose playlist fetch succeeded again (the maps are equal
\* when all succeeded).
C1_WarmRunFetchesOnlyPlaylists ==
    warm =>
        /\ \A k \in 1..Len(net) : net[k].kind = "playlist"
        /\ pc = "returned" =>
              /\ Len(net) = Cardinality(WithUrl)
              /\ DOMAIN local_urls \subseteq DOMAIN prev_urls
              /\ \A n \in DOMAIN local_urls : local_urls[n] = prev_urls[n]
              /\ (\A k \in 1..Len(net) : net[k].ok) => local_urls = prev_urls

\* a second run over a cached profile returned the same map after passing
\* over cached references
C1_Witness ==
    /\ warm
    /\ pc = "returned"
    /\ Len(net) = 2
    /\ local_urls = prev_urls
    /\ \E k \in 1..Len(refs) : refs[k].how = "cached"

\* C2: a segment is requested only when nothing exists at its local path at
\* the check, and a segment file, once there, is never removed or rewritten
\* by any later step of any run.
C2_SegmentRequestedOnlyWhenAbsent ==
    [][ /\ (Len(net') = Len(net) + 1 /\ net'[Len(net')].kind = "segment") =>
              ~Exists(files, dirs,
                      SegmentPlan[net'[Len(net')].name][net'[Len(net')].line].key)
        /\ \A key \in DOMAIN files \cap SegmentKeys :
              key \in DOMAIN files' /\ files'[key] = files[key] ]_vars

\* in a second run a reference was passed over because its file is there
C2_Witness ==
    /\ run = 2
    /\ pc = "lines"
    /\ \E k \in 1..Len(refs) :
          /\ refs[k].how = "cached"
          /\ SegmentPlan[playback[pi].name][refs[k].line].key \in DOMAIN files

\* C3: after a segment fetch failed, no file exists at the segment's local
\* path.
C3_FailedFetchLeavesNoFile ==
    \A key \in seg_failed : key \notin DOMAIN files

\* C4: a segment fetch that fails with a non-200 status or an
\* aiohttp.ClientError never makes fetch_and_cache_hls raise; when it returns,
\* every profile with a URL had its playlist requested and every reference of
\* every stored playlist is on disk unless its own fetch failed.
C4_SegmentFailuresDoNotStopTheFill ==
    /\ pc = "raised" => error.class = "OSError"
    /\ (pc = "returned" /\ cacheEnabled) =>
          /\ \A i \in WithUrl :
                \E k \in PlaylistRequests : net[k].name = playback[i].name
          /\ \A n \in DOMAIN local_urls :
                \A k \in 1..Len(LinesOf[origin[n]]) :
                    LET plan == SegmentPlan[n][LinesOf[origin[n]][k]]
                    IN  plan.reference =>
                            plan.key \in DOMAIN files \/ plan.key \in seg_failed

\* of three segments the second failed and left no file, the first and the
\* third are on disk, and the next profile was cached too
C4_Witness ==
    /\ pc = "returned"
    /\ run = 1
    /\ origin["720p"] = PlaylistB
    /\ seg_failed = {SegmentPlan["720p"]["sub/seg1.ts"].key}
    /\ SegmentPlan["720p"]["sub/seg1.ts"].key \notin DOMAIN files
    /\ SegmentPlan["720p"]["seg0.ts"].key \in DOMAIN files
    /\ SegmentPlan["720p"]["seg2.ts"].key \in DOMAIN files
    /\ SegmentPlan["480p"]["seg1.ts"].key \in DOMAIN files

\* C5: a failure to fetch or to store one profile's playlist never makes
\* fetch_and_cache_hls raise; the profile gets no map entry and every other
\* profile with a URL is still requested.
C5_PlaylistFailureSkipsOnlyThatProfile ==
    /\ pc = "raised" => error.at /= "playlist"
    /\ (pc = "returned" /\ cacheEnabled) =>
          \A i \in WithUrl :
              \E k \in PlaylistRequests :
                  /\ net[k].name = playback[i].name
                  /\ ~net[k].ok => playback[i].name \notin DOMAIN local_urls

\* C6: the map fetch_and_cache_hls returns has a key for exactly the
\* profiles with a URL whose playlist fetch succeeded in this run, each with
\* the value LOCAL_PLAYBACK_URL_BASE + name + "/index.m3u8", whatever became
\* of the profile's segments.
C6_MapHoldsTheFetchedPlaylists ==
    pc = "returned" =>
        LET fetched == { net[k].name : k \in { j \in PlaylistRequests : net[j].ok } }
        IN  /\ DOMAIN local_urls = fetched
            /\ fetched \subseteq { playback[i].name : i \in WithUrl }
            /\ \A n \in fetched :
                   local_urls[n] = "http://localhost:8080/cache/" \o n \o "/index.m3u8"

\* the first profile's playlist fetch failed, the second profile is in the
\* map although one of its segments failed
C6_Witness ==
    /\ pc = "returned"
    /\ WithUrl = {1, 2}
    /\ local_urls = ("480p" :> "http://localhost:8080/cache/480p/index.m3u8")
    /\ seg_failed /= {}

\* C7: with caching off, fetch_and_cache_hls returns the empty map at once,
\* issues no request and leaves the disk as it was.
C7_DisabledCachingDoesNothing ==
    ~cacheEnabled =>
        /\ pc \in {"idle", "returned"}
        /\ local_urls = EmptyMap
        /\ net = << >>
        /\ files = EmptyMap
        /\ dirs = InitialDirs

\* with caching off, a second call returned for a descriptor with URLs
C7_Witness ==
    /\ ~cacheEnabled
    /\ pc = "returned"
    /\ run = 2
    /\ WithUrl = {1, 2}

\* the reference lines as C9 words them
C9_IsReferenceLine(line) ==
    /\ ~StartsWith(line, "#")
    /\ EndsWith(line, ".ts") \/ EndsWith(line, ".m3u8")

\* C9: among the lines of the playlist gone through so far, the ones taken
\* as references are exactly those that do not start with "#" and end in
\* ".ts" or ".m3u8", in playlist order; the segment requests issued for the
\* profile are those references that were not passed over as cached, in the
\* same order.
C9_ReferencesAreTheMediaLines ==
    pc = "lines" =>
        LET seen    == SelectSeq(SubSeq(lines, 1, li - 1), C9_IsReferenceLine)
            mine    == SelectSeq(net, LAMBDA e : e.kind = "segment"
                                                 /\ e.name = playback[pi].name)
            fetched == SelectSeq(refs, LAMBDA r : r.how = "fetch")
        IN  /\ [k \in 1..Len(refs) |-> refs[k].line] = seen
            /\ [k \in 1..Len(mine) |-> mine[k].line]
                   = [k \in 1..Len(fetched) |-> fetched[k].line]

\* the loop is through a playlist of five lines, one of them a reference and
\* one a comment that ends in ".ts"
C9_Witness ==
    /\ pc = "lines"
    /\ li > Len(lines)
    /\ Len(lines) = 5
    /\ Len(refs) = 1
    /\ \E k \in 1..Len(lines) : StartsWith(lines[k], "#") /\ EndsWith(lines[k], ".ts")

(***************************************************************************)
(* The playlist rewrite on its own: lines 170-193 applied to one playlist  *)
(* text, for playlist URLs and texts chosen to overlap the local prefix    *)
(***************************************************************************)
\* playlist URLs: the CDN URL of a profile, and two URLs under the local
\* base URL (a relay that is fed from the cache of another relay)
RwUrls ==
    { ProfileUrl("720p"),
      "http://localhost:8080/cache/720p/index.m3u8",
      "http://localhost:8080/cache/index.m3u8" }

\* lines of a playlist fetched from url: comments, relative and absolute
\* references, directives with a URI attribute
RwLines(url) ==
    LET base == BaseUrl(url) \o "/"
    IN  { "#EXTM3U",
          "seg0.ts",
          base \o "seg1.ts",
          "notes.txt",
          "#EXT-X-KEY:METHOD=AES-128,URI=\"" \o base \o "key.bin\"",
          "#EXT-X-KEY:METHOD=AES-128,URI=\"https://keys.example/k.bin\"",
          "#EXT-X-MEDIA:TYPE=AUDIO,URI=" \o base \o "audio.m3u8" }

\* the texts of n lines, every line ended by "\n"
RECURSIVE RwTexts(_, _)
RwTexts(url, n) ==
    IF n = 0 THEN {""}
    ELSE { l \o "\n" \o t : l \in RwLines(url), t \in RwTexts(url, n - 1) }

\* the texts of at most MaxRwLines lines
RwContents(url) == UNION { RwTexts(url, k) : k \in 0..MaxRwLines }

RwInputs ==
    UNION { { [state |-> "input", url |-> u, name |-> n, content |-> c] :
                n \in Range(ProfileNames), c \in RwContents(u) } : u \in RwUrls }

InitRw ==
    /\ cacheEnabled = TRUE
    /\ playback = Playback({1, 2})
    /\ origin = Served(PlaylistE, PlaylistE)
    /\ FillIdle
    /\ rw \in RwInputs
    /\ PipeIdle
    /\ RelayIdle

\* lines 170-193 for a playlist that was fetched with status 200: the text
\* written to index.m3u8 and the lines that reach line 192
RewritePlaylist ==
    /\ rw.state = "input"
    /\ rw' = [state      |-> "done",
              url        |-> rw.url,
              name       |-> rw.name,
              content    |-> rw.content,
              written    |-> ModifiedContent(rw.content, rw.url, rw.name),
              references |-> SelectSeq(SplitLines(rw.content), IsReference)]
    /\ UNCHANGED << cacheEnabled, playback, origin, files, dirs, pc, run, pi, li,
                    lines, local_urls, net, refs, seg_failed, prev_urls, warm, error,
                    pipeVars, relayVars >>

NextRw == RewritePlaylist

SpecRw == InitRw /\ [][NextRw]_vars

(***************************************************************************)
(* Properties of the playlist rewrite                                      *)
(***************************************************************************)
\* originBase + "/" and localBaseURL + profileName + "/" of a rewrite
C8_Old == BaseUrl(rw.url) \o "/"
C8_New == "http://localhost:8080/cache/" \o rw.name \o "/"

\* s with the occurrences of old at the positions pos replaced by new
RECURSIVE C8_Subst(_, _, _, _)
C8_Subst(s, pos, old, new) ==
    IF pos = {} THEN s
    ELSE LET i == CHOOSE x \in pos : \A y \in pos : x >= y
         IN  C8_Subst(SubSeq(s, 1, i - 1), pos \ {i}, old, new)
                 \o new \o From(s, i + Len(old))

\* written is content with every occurrence of old replaced by new: there are
\* occurrences that do not overlap one another, every other occurrence
\* overlaps one of them, and replacing them gives written
C8_EveryOccurrenceReplaced(content, written, old, new) ==
    \E pos \in SUBSET Occurrences(content, old) :
        /\ \A i, j \in pos : i < j => i + Len(old) <= j
        /\ \A o \in Occurrences(content, old) :
               \E i \in pos : o < i + Len(old) /\ i < o + Len(old)
        /\ C8_Subst(content, pos, old, new) = written

\* an occurrence of a can share text with an occurrence of b
C8_CanOverlap(a, b) ==
    \/ Find(a, b) /= 0
    \/ Find(b, a) /= 0
    \/ \E k \in 1..(IF Len(a) < Len(b) THEN Len(a) ELSE Len(b)) :
           \/ SubSeq(a, Len(a) - k + 1, Len(a)) = SubSeq(b, 1, k)
           \/ SubSeq(b, Len(b) - k + 1, Len(b)) = SubSeq(a, 1, k)

C10_Stored == SplitLines(files[ProfilePlan[playback[pi].name].key])

\* originBase + "/" and the local prefix of the profile of the outer loop
C10_Old == BaseUrl(playback[pi].url) \o "/"
C10_New == "http://localhost:8080/cache/" \o playback[pi].name \o "/"

\* no request of the current run is for line k of the current playlist
C10_NeverFetched(k) ==
    /\ \A j \in 1..Len(refs) : refs[j].line /= lines[k]
    /\ \A j \in 1..Len(net) :
           ~(net[j].kind = "segment" /\ net[j].name = playback[pi].name
                                     /\ net[j].line = lines[k])

\* C10 as stated: a line that starts with "#" is stored unchanged in
\* index.m3u8 and triggers no fetch, even when it embeds a URI that begins
\* with originBase + "/".
C10_DirectiveLinesAreLeftAlone ==
    pc = "lines" =>
        \A k \in 1..Len(lines) :
            StartsWith(lines[k], "#") =>
                /\ C10_Stored[k] = lines[k]
                /\ C10_NeverFetched(k)

\* What the code does with the lines of C10: a line that starts with "#"
\* triggers no fetch; it is stored unchanged in index.m3u8 unless it
\* contains originBase + "/", and then that text is replaced by the local
\* prefix as anywhere else, although the resource it names is not cached.
C10_DirectiveLinesAreNeverFetched ==
    pc = "lines" =>
        \A k \in 1..Len(lines) :
            StartsWith(lines[k], "#") =>
                /\ C10_NeverFetched(k)
                /\ Find(lines[k], C10_Old) = 0 => C10_Stored[k] = lines[k]
                /\ Find(lines[k], C10_Old) /= 0 =>
                       C10_Stored[k] = Replace(lines[k], C10_Old, C10_New)

\* the loop is through a playlist with a key directive whose URI was
\* rewritten and a comment ending in ".ts", and a segment was requested
C10_Witness ==
    /\ pc = "lines"
    /\ li > Len(lines)
    /\ \E j \in 1..Len(net) : net[j].kind = "segment" /\ net[j].name = playback[pi].name
    /\ \E k \in 1..Len(lines) :
           /\ StartsWith(lines[k], "#EXT-X-KEY")
           /\ Find(lines[k], C10_Old) /= 0
           /\ C10_Stored[k] /= lines[k]
    /\ \E k \in 1..Len(lines) :
           /\ StartsWith(lines[k], "#")
           /\ EndsWith(lines[k], ".ts")
           /\ C10_Stored[k] = lines[k]

(***************************************************************************)
(* The stored playlist against the cached files                            *)
(***************************************************************************)
\* the file under cacheRoot/profileName/ that a line of the stored playlist
\* of profile n names: the line without the local prefix of the profile,
\* taken relative to the profile directory
C11_Named(n, line) ==
    LET prefix == "http://localhost:8080/cache/" \o n \o "/"
        rel    == IF StartsWith(line, prefix) THEN From(line, Len(prefix) + 1)
                  ELSE line
    IN  AbsPath(OsPathJoin(OsPathJoin("./cache/livepeer", n), rel))

\* C11: when fetch_and_cache_hls has returned, every line of a stored
\* index.m3u8 that does not start with "#" and ends in ".ts" or ".m3u8" names
\* a file that exists in the profile directory, unless the fetch of that
\* reference failed in this run; for relative lines and for lines that were
\* written with the origin prefix alike.
C11_StoredReferencesAreCached ==
    pc = "returned" =>
        \A n \in DOMAIN local_urls :
            LET orig   == LinesOf[origin[n]]
                stored == SplitLines(files[ProfilePlan[n].key])
            IN  \A k \in 1..Len(stored) :
                    C9_IsReferenceLine(stored[k]) =>
                        \/ C11_Named(n, stored[k]) \in DOMAIN files
                        \/ SegmentPlan[n][orig[k]].key \in seg_failed

(***************************************************************************)
(* serve_cached_content and its request handler                            *)
(***************************************************************************)
\* number of requests the server is sent
MaxRequests == 2

\* the values of match_info['filename'] for requests GET /cache/{filename}
Filenames ==
    { "", "720p", "720p/index.m3u8", "720p/seg0.ts", "720p/low",
      "720p/low/index.m3u8", "720p/seg9.ts", "../..", "/" }

\* what the server is run against: the fill of one profile
ServeScenarios ==
    { [playback |-> Playback({1}), origin |-> Served(PlaylistA, PlaylistE)],
      [playback |-> Playback({1}), origin |-> Served(PlaylistD, PlaylistE)] }

\* how the disk answers the read of an existing path (aiofiles.open and
\* read, os.listdir): with the data, or with an OSError
ReadOutcomes == {"ok", "oserror"}

\* how site.start() ends: the port is bound, or OSError (address in use)
ServeOutcomes == {"ok", "oserror"}

\* (mutant) the server is started whatever CACHE_ENABLED is
ServerOff_Never(enabled) == FALSE

\* line 220
ServerOff(enabled) == ~enabled

\* line 228 for each filename, and the absolute path it denotes
ServePlan ==
    [f \in Filenames |->
        [filepath |-> OsPathJoin(LOCAL_CACHE_DIR, f),
         key      |-> AbsPath(OsPathJoin(LOCAL_CACHE_DIR, f))]]

\* the last component of an absolute path
Basename(p) == From(p, RFind(p, "/") + 1)

\* every path the Cache Filler can make, with its directory and its last
\* component (the values depend on the path only and are tabulated once)
PathTable ==
    LET made == UNION ( { ProfilePlan[n].chain : n \in Range(ProfileNames) }
                  \cup { SegmentPlan[n][l].chain :
                             n \in Range(ProfileNames), l \in AllLines } )
                  \cup { ProfilePlan[n].key : n \in Range(ProfileNames) }
                  \cup { SegmentPlan[n][l].key :
                             n \in Range(ProfileNames), l \in AllLines }
    IN  [p \in made \ {"/"} |-> [dir |-> Dirname(p), name |-> Basename(p)]]

\* os.listdir(key) as a set: the names of the files and directories in key
ListDir(fs, ds, key) ==
    { PathTable[p].name : p \in { q \in (DOMAIN fs \cup ds) \ {"/"} :
                                      PathTable[q].dir = key } }

\* the orders in which os.listdir may return the names
Orders(names) ==
    { o \in [1..Cardinality(names) -> names] :
          \A i, j \in 1..Cardinality(names) : o[i] = o[j] => i = j }

\* lines 241-242: one list item per name
RECURSIVE ListItems(_)
ListItems(names) ==
    IF names = << >> THEN ""
    ELSE "<li><a href=\"" \o Head(names) \o "\">" \o Head(names) \o "</a></li>"
             \o ListItems(Tail(names))

\* lines 240-243
ListingHtml(names) == "<html><body><ul>" \o ListItems(names) \o "</ul></body></html>"

\* line 235
ContentType_AlwaysSegment(filepath) == "video/MP2T"

ContentType(filepath) ==
    IF EndsWith(filepath, ".m3u8") THEN "application/vnd.apple.mpegurl"
    ELSE "video/MP2T"

\* str(e) of the OSError a read raised
ErrorText(filepath) == "[Errno 13] Permission denied: '" \o filepath \o "'"

\* line 245: the exceptions a request survives
HandlerCatches_Nothing(read) == FALSE

HandlerCatches(read) == read = "oserror"

\* lines 227-248: the response for a filename, given how the read ends and
\* the order os.listdir returns
Response(fs, ds, filename, read, names) ==
    LET plan == ServePlan[filename]
    IN  IF ~Exists(fs, ds, plan.key)
        THEN [filename |-> filename, read |-> read, status |-> 404,
              content_type |-> "text/plain", body |-> "File not found"]
        ELSE IF read /= "ok"
        THEN [filename |-> filename, read |-> read, status |-> 500,
              content_type |-> "text/plain", body |-> ErrorText(plan.filepath)]
        ELSE IF plan.key \in DOMAIN fs
        THEN [filename |-> filename, read |-> read, status |-> 200,
              content_type |-> ContentType(plan.filepath), body |-> fs[plan.key]]
        ELSE [filename |-> filename, read |-> read, status |-> 200,
              content_type |-> "text/html", body |-> ListingHtml(names)]

\* lines 216-260 called on their own: None when caching is off, else the
\* site is started, or site.start() raises
ServeCachedContent ==
    /\ site = "down"
    /\ session = NoSession
    /\ \E outcome \in ServeOutcomes :
           site' = IF ServerOff(cacheEnabled) THEN "off"
                   ELSE IF outcome = "ok" THEN "listening"
                   ELSE "failed"
    /\ UNCHANGED << fillVars, rw, pipeVars, resp, handled, prev_status, session >>

\* lines 226-248: one request is answered; an exception line 245 does not
\* catch ends the request without a response of the handler
Handle ==
    /\ site = "listening"
    /\ handled < MaxRequests
    /\ \E filename \in Filenames, read \in ReadOutcomes :
           LET key == ServePlan[filename].key
           IN  /\ read /= "ok" => Exists(files, dirs, key)
               /\ \E names \in Orders(IF key \in dirs THEN ListDir(files, dirs, key)
                                      ELSE {}) :
                      resp' = IF read = "ok" \/ ~Exists(files, dirs, key)
                                 \/ HandlerCatches(read)
                              THEN Response(files, dirs, filename, read, names)
                              ELSE [filename |-> filename, read |-> read, status |-> 0,
                                    content_type |-> "", body |-> "unhandled"]
    /\ handled' = handled + 1
    /\ prev_status' = resp.status
    /\ UNCHANGED << fillVars, rw, pipeVars, site, session >>

\* the Cache Filler is run once beside the server
ServeFill ==
    /\ site = "listening"
    /\ run = 0
    /\ FillStart

\* lines 192-203 beside the server: the segment request answered with
\* status 200 and aiofiles.open(local_segment_path, "wb") done, which
\* creates the file empty; the fill then waits for the body (line 204)
\* while the server can answer requests
FetchSegmentOpen ==
    /\ pc = "lines"
    /\ li <= Len(lines)
    /\ LET name == playback[pi].name
           plan == SegmentPlan[name][lines[li]]
           made == MakeDirs(dirs, plan.chain)
       IN  /\ plan.reference
           /\ ~MakeDirsRaises(files, plan.chain)
           /\ ~SegmentCached(files, made, plan.key)
           /\ dirs' = made
           /\ refs' = Append(refs, [line |-> lines[li], how |-> "fetch"])
           /\ files' = (plan.key :> "") @@ files
           /\ pc' = "body"
    /\ UNCHANGED << cacheEnabled, playback, origin, run, pi, li, lines, local_urls,
                    net, seg_failed, prev_urls, warm, error, rw, pipeVars, relayVars >>

\* lines 204-208 beside the server: the body has arrived and is written,
\* or its read raised and the file stays as line 203 made it
FetchSegmentBody ==
    /\ pc = "body"
    /\ LET name == playback[pi].name
           plan == SegmentPlan[name][lines[li]]
       IN  \E outcome \in {"ok", "body_clienterror"} :
                /\ net' = Append(net, [kind |-> "segment", name |-> name,
                                       line |-> lines[li], url |-> plan.url,
                                       ok |-> outcome = "ok"])
                /\ files' = IF outcome = "ok"
                               THEN (plan.key :> SegmentBytes(plan.url)) @@ files
                               ELSE files
                /\ seg_failed' = IF outcome = "ok"
                                    THEN seg_failed \ {plan.key}
                                    ELSE seg_failed \cup {plan.key}
                /\ IF outcome = "ok" \/ SegmentHandlerCatches(outcome)
                   THEN /\ pc' = "lines"
                        /\ li' = li + 1
                        /\ UNCHANGED << pi, error >>
                   ELSE IF ProfileHandlerCatches(outcome)
                   THEN /\ pc' = "profile"
                        /\ pi' = pi + 1
                        /\ UNCHANGED << li, error >>
                   ELSE /\ pc' = "raised"
                        /\ error' = [class |-> "ClientError", at |-> "segment"]
                        /\ UNCHANGED << pi, li >>
    /\ UNCHANGED << cacheEnabled, playback, origin, dirs, run, lines, local_urls,
                    refs, prev_urls, warm, rw, pipeVars, relayVars >>

InitServe ==
    /\ cacheEnabled \in BOOLEAN
    /\ \E sc \in ServeScenarios :
           /\ playback = sc.playback
           /\ origin = sc.origin
    /\ FillIdle
    /\ rw = RwIdle
    /\ PipeIdle
    /\ RelayIdle

NextServe ==
    \/ ServeCachedContent
    \/ Handle
    \/ ServeFill
    \/ SkipProfile
    \/ FetchPlaylist
    \/ OtherLine
    \/ CachedSegment
    \/ FetchSegment
    \/ FetchSegmentOpen
    \/ FetchSegmentBody
    \/ EndOfPlaylist
    \/ FillReturn

SpecServe == InitServe /\ [][NextServe]_vars

(***************************************************************************)
(* Properties of the Local Content Server                                  *)
(***************************************************************************)
\* a step in which handle answers a request
C12_Answered == handled' = handled + 1

\* C12: a request whose read does not fail is answered by what its path
\* denotes under the cache root when it arrives: a regular file gives 200,
\* the whole contents and application/vnd.apple.mpegurl for a path ending in
\* ".m3u8", video/MP2T for any other; a directory gives 200 and an HTML list
\* of the names directly in it; a path that does not exist gives 404.
C12_ResponseFollowsThePath ==
    [][ (C12_Answered /\ resp'.read = "ok") =>
            LET path == ServePlan[resp'.filename].key
            IN  /\ path \in DOMAIN files =>
                      /\ resp'.status = 200
                      /\ resp'.body = files[path]
                      /\ resp'.content_type =
                             IF EndsWith(path, ".m3u8")
                             THEN "application/vnd.apple.mpegurl" ELSE "video/MP2T"
                /\ path \in dirs =>
                      /\ resp'.status = 200
                      /\ resp'.content_type = "text/html"
                      /\ \E names \in Orders(ListDir(files, dirs, path)) :
                             resp'.body = ListingHtml(names)
                /\ (path \notin DOMAIN files /\ path \notin dirs) =>
                      resp'.status = 404 ]_vars

\* a missing path was answered 404, and then the directory of a profile was
\* listed with its playlist and its subdirectory
C12_Witness ==
    /\ handled = 2
    /\ prev_status = 404
    /\ resp.filename = "720p"
    /\ resp.status = 200
    /\ resp.content_type = "text/html"
    /\ Find(resp.body, "<li><a href=\"index.m3u8\">index.m3u8</a></li>") /= 0
    /\ Find(resp.body, "<li><a href=\"low\">low</a></li>") /= 0

\* C13: a request whose read of an existing path fails is answered 500 with
\* the error message, the server goes on listening, and the request after a
\* 500 is answered as any other: 200 for a path that exists, 404 for one that
\* does not.
C13_ReadFailureGives500 ==
    [][ C12_Answered =>
            LET path == ServePlan[resp'.filename].key
            IN  /\ site' = "listening"
                /\ resp'.read = "oserror" =>
                      /\ resp'.status = 500
                      /\ resp'.body = ErrorText(OsPathJoin("./cache/livepeer",
                                                           resp'.filename))
                /\ (resp.status = 500 /\ resp'.read = "ok") =>
                      resp'.status = IF Exists(files, dirs, path) THEN 200 ELSE 404 ]_vars

\* after a 500 for the stored playlist, the playlist was served whole
C13_Witness ==
    /\ handled = 2
    /\ prev_status = 500
    /\ resp.filename = "720p/index.m3u8"
    /\ resp.status = 200
    /\ resp.content_type = "application/vnd.apple.mpegurl"
    /\ resp.body = files[ProfilePlan["720p"].key]
    /\ site = "listening"

\* C14: a request for the path of a playlist or a segment whose fetch failed
\* in the fill is answered 404.
C14_FailedContentGives404 ==
    [][ (C12_Answered /\ resp'.read = "ok") =>
            LET path == ServePlan[resp'.filename].key
            IN  (\/ path \in seg_failed
                 \/ \E k \in 1..Len(net) :
                        /\ net[k].kind = "playlist"
                        /\ ~net[k].ok
                        /\ ProfilePlan[net[k].name].key = path)
                    => resp'.status = 404 ]_vars

(***************************************************************************)
(* stream_video_to_livepeer: the session, its push task and its cache task *)
(***************************************************************************)
\* what create_stream is answered for the sessions explored: a descriptor
\* with a URL for every profile, or one without playbackId (no profiles)
SessionScenarios ==
    { [playback |-> Playback({1, 2}), origin |-> Served(PlaylistD, PlaylistA)],
      [playback |-> << >>,            origin |-> Served(PlaylistE, PlaylistE)] }

\* how create_stream ends: a StreamInfo, the exception of line 70 for a
\* status other than 200, or an aiohttp.ClientError of session.post
CreateOutcomes == {"ok", "status", "clienterror"}

\* how push_to_livepeer ends: ffmpeg exits with 0, the input file is
\* missing (line 103), ffmpeg exits with another code (line 132), or
\* create_subprocess_exec raises (line 139)
PushOutcomes == {"ok", "missing_file", "exit_code", "exception"}

\* lines 68-70: create_stream raises
AllocationFails_OnlyTransport(outcome) == outcome = "clienterror"

AllocationFails(outcome) == outcome /= "ok"

\* lines 103-141: the value push_to_livepeer returns
PushReturns(outcome) == outcome = "ok"

\* line 139: the exceptions push_to_livepeer turns into False
PushCatches_Nothing(outcome) == FALSE

PushCatches(outcome) == outcome = "exception"

\* line 308 is reached: the cache task exists
CacheTaskCreated_WithPush(s) == s.pc /= "called"

CacheTaskCreated(s) == s.cache_task = "created"

\* line 311: await push_task goes on when the push task has ended
PushTaskEnded_NotAwaited(s) == TRUE

PushTaskEnded(s) == s.push_task \in {"done", "raised"}

\* line 316: await cache_task goes on when fetch_and_cache_hls has returned
\* or raised
CacheTaskEnded_OnlyReturned(p) == p = "returned"

CacheTaskEnded(p) == p \in {"returned", "raised"}

\* lines 264-270
InitialResult ==
    [success |-> FALSE, stream_id |-> "None", ingest_url |-> "None",
     playback_urls |-> EmptyMap, local_playback_urls |-> EmptyMap]

\* line 328: result["error"] = str(e)
WithError(result, text) == ("error" :> text) @@ result

\* lines 289-291
PlaybackUrls(profiles) ==
    [n \in { profiles[i].name : i \in 1..Len(profiles) } |->
        profiles[CHOOSE i \in 1..Len(profiles) : profiles[i].name = n].url]

\* the session at the call of stream_video_to_livepeer; log lists what the
\* session has done so far
SessionCalled ==
    [pc |-> "called", create |-> "", push_task |-> "none", push |-> "",
     push_success |-> FALSE, cache_task |-> "none", server_runner |-> "unset",
     result |-> InitialResult, log |-> << >>]

InitSession ==
    /\ cacheEnabled \in BOOLEAN
    /\ \E sc \in SessionScenarios :
           /\ playback = sc.playback
           /\ origin = sc.origin
    /\ FillIdle
    /\ rw = RwIdle
    /\ PipeIdle
    /\ site = "down"
    /\ resp = NoResponse
    /\ handled = 0
    /\ prev_status = 0
    /\ session = SessionCalled

\* lines 273-302: create_stream is awaited; when it raises, line 326 records
\* the error and the session returns; otherwise the descriptor is entered
\* in the result, the push task is created and the session sleeps
SessionCreateStream ==
    /\ session.pc = "called"
    /\ \E outcome \in CreateOutcomes :
           session' =
               IF AllocationFails(outcome)
               THEN [session EXCEPT
                        !.pc = "returned",
                        !.create = outcome,
                        !.result = WithError(@, "Failed to create stream"),
                        !.log = Append(@, "failed")]
               ELSE [session EXCEPT
                        !.pc = "warmup",
                        !.create = outcome,
                        !.push_task = "running",
                        !.result = [@ EXCEPT !.success = TRUE,
                                             !.stream_id = "id",
                                             !.ingest_url = "rtmp",
                                             !.playback_urls = PlaybackUrls(playback)],
                        !.log = Append(Append(@, "allocated"), "push_started")]
    /\ UNCHANGED << fillVars, rw, pipeVars, serverVars >>

\* lines 101-141: the push task runs to its end
PushToLivepeer ==
    /\ session.push_task = "running"
    /\ \E outcome \in PushOutcomes :
           session' =
               IF outcome = "exception" /\ ~PushCatches(outcome)
               THEN [session EXCEPT !.push_task = "raised", !.push = outcome]
               ELSE [session EXCEPT !.push_task = "done", !.push = outcome]
    /\ UNCHANGED << fillVars, rw, pipeVars, serverVars >>

\* line 334: asyncio.run cancels the push task a returned session left
PushCancelled ==
    /\ session.pc = "returned"
    /\ session.push_task = "running"
    /\ session' = [session EXCEPT !.push_task = "cancelled"]
    /\ UNCHANGED << fillVars, rw, pipeVars, serverVars >>

\* line 302: the sleep of 10 seconds is over
SessionWarmedUp ==
    /\ session.pc = "warmup"
    /\ session' = [session EXCEPT !.pc = "serve", !.log = Append(@, "warmed_up")]
    /\ UNCHANGED << fillVars, rw, pipeVars, serverVars >>

\* lines 305-311: serve_cached_content is awaited, the cache task is
\* created and the session waits for the push task; when site.start()
\* raises, line 326 records the error and the session returns
SessionServe ==
    /\ session.pc = "serve"
    /\ \E outcome \in ServeOutcomes :
           IF ServerOff(cacheEnabled)
           THEN /\ site' = "off"
                /\ session' = [session EXCEPT !.pc = "await_push",
                                              !.server_runner = "None",
                                              !.cache_task = "created",
                                              !.log = Append(@, "fill_created")]
           ELSE IF outcome = "ok"
           THEN /\ site' = "listening"
                /\ session' = [session EXCEPT
                       !.pc = "await_push",
                       !.server_runner = "runner",
                       !.cache_task = "created",
                       !.log = Append(Append(@, "server_started"), "fill_created")]
           ELSE /\ site' = "failed"
                /\ session' = [session EXCEPT
                       !.pc = "returned",
                       !.result = WithError(@, "address already in use"),
                       !.log = Append(@, "raised")]
    /\ UNCHANGED << fillVars, rw, pipeVars, resp, handled, prev_status >>

\* lines 143-154 as the first step of the cache task
CacheTaskStart ==
    /\ CacheTaskCreated(session)
    /\ run = 0
    /\ FillStart

\* lines 311-316: the push task has ended; its value is kept in
\* push_success and the session waits for the cache task
SessionPushJoined ==
    /\ session.pc = "await_push"
    /\ PushTaskEnded(session)
    /\ session' =
           IF session.push_task = "raised"
           THEN [session EXCEPT !.pc = "returned",
                                !.result = WithError(@, "ffmpeg"),
                                !.log = Append(@, "raised")]
           ELSE [session EXCEPT !.pc = "await_cache",
                                !.push_success = PushReturns(session.push),
                                !.log = Append(@, "push_joined")]
    /\ UNCHANGED << fillVars, rw, pipeVars, serverVars >>

\* lines 316-323: the cache task has ended; its map is entered in the
\* result and the session sleeps 30 minutes when there is a server and
\* returns when there is none; when the cache task raised, line 326 records
\* the error and the session returns
SessionCacheJoined ==
    /\ session.pc = "await_cache"
    /\ run = 1
    /\ CacheTaskEnded(pc)
    /\ session' =
           IF pc = "raised"
           THEN [session EXCEPT !.pc = "returned",
                                !.result = WithError(@, error.class),
                                !.log = Append(@, "raised")]
           ELSE [session EXCEPT
                    !.pc = IF session.server_runner = "runner"
                           THEN "draining" ELSE "returned",
                    !.result = [@ EXCEPT !.local_playback_urls = local_urls],
                    !.log = Append(@, "fill_joined")]
    /\ UNCHANGED << fillVars, rw, pipeVars, serverVars >>

\* lines 323-330: the sleep of 30 minutes is over, the server is cleaned up
\* and the session returns
SessionDrained ==
    /\ session.pc = "draining"
    /\ site' = "closed"
    /\ session' = [session EXCEPT !.pc = "returned",
                                  !.log = Append(Append(@, "drained"), "closed")]
    /\ UNCHANGED << fillVars, rw, pipeVars, resp, handled, prev_status >>

\* (create_stream gives every profile of its descriptor a URL, line 91, so
\* the cache task of a session passes over no profile)
NextSession ==
    \/ SessionCreateStream
    \/ PushToLivepeer
    \/ PushCancelled
    \/ SessionWarmedUp
    \/ SessionServe
    \/ CacheTaskStart
    \/ FetchPlaylist
    \/ OtherLine
    \/ CachedSegment
    \/ FetchSegment
    \/ EndOfPlaylist
    \/ FillReturn
    \/ SessionPushJoined
    \/ SessionCacheJoined
    \/ SessionDrained

SpecSession == InitSession /\ [][NextSession]_vars

(***************************************************************************)
(* Properties of the session                                               *)
(***************************************************************************)
\* what the session has done so far
Done(event) == \E k \in 1..Len(session.log) : session.log[k] = event

\* a step in which fetch_and_cache_hls is entered
C15_FillStarts == run' = run + 1

\* C15 as stated: in every session the Cache Filler starts after the
\* warm-up sleep is over and while the server is listening.
C15_FillStartsBesideAListeningServer ==
    [][ C15_FillStarts => (Done("warmed_up") /\ site = "listening") ]_vars

\* C15 as amended: the Cache Filler starts after the warm-up sleep is over;
\* with caching enabled the server is listening at that moment, and with
\* caching disabled no server was started and the Cache Filler returns the
\* empty map at once without a request.
C15_FillStartsAfterWarmUp ==
    [][ C15_FillStarts =>
            /\ Done("warmed_up")
            /\ cacheEnabled => site = "listening"
            /\ ~cacheEnabled =>
                   /\ site = "off"
                   /\ pc' = "returned"
                   /\ local_urls' = EmptyMap
                   /\ net' = << >> ]_vars

\* the Cache Filler is at work beside a listening server, after the warm-up
\* and while the push is still running
C15_Witness ==
    /\ run = 1
    /\ pc = "lines"
    /\ site = "listening"
    /\ Done("warmed_up")
    /\ session.push_task = "running"

\* C16: when create_stream fails the session returns at once: no push task,
\* no warm-up, no server, no run of the Cache Filler, and a result with
\* success false and the error.
C16_AllocationFailureStopsTheSession ==
    session.create \in {"status", "clienterror"} =>
        /\ session.pc = "returned"
        /\ session.log = << "failed" >>
        /\ session.push_task = "none"
        /\ session.cache_task = "none"
        /\ site = "down"
        /\ run = 0
        /\ pc = "idle"
        /\ session.result.success = FALSE
        /\ "error" \in DOMAIN session.result
        /\ session.result.local_playback_urls = EmptyMap

\* create_stream was answered a status other than 200 and the session is back
C16_Witness ==
    /\ session.create = "status"
    /\ session.pc = "returned"
    /\ session.result.success = FALSE

\* the entries of the result that belong to the allocation, to the cache
\* fill and to line 328
C17_OtherEntries ==
    {"success", "stream_id", "ingest_url", "playback_urls", "local_playback_urls",
     "error"}

\* C17: the result a session returns has an entry for the allocation, an
\* entry for the push and an entry for the map of the Cache Filler.
C17_ResultHoldsEveryStage ==
    session.pc = "returned" =>
        /\ "success" \in DOMAIN session.result
        /\ "local_playback_urls" \in DOMAIN session.result
        /\ DOMAIN session.result \ C17_OtherEntries /= {}

\* C18: once the stream is allocated no error halts the session: the push
\* task is never cancelled, a session that returns has waited for the push
\* and for a run of the Cache Filler and has drained and closed the server
\* it started, and a stage that failed has its error in the result.
C18_OnlyAllocationHaltsTheSession ==
    /\ session.push_task /= "cancelled"
    /\ (session.pc = "returned" /\ session.create = "ok") =>
           /\ Done("push_joined")
           /\ run = 1
           /\ site \in {"listening", "closed"} => Done("drained")
           /\ site /= "failed"
           /\ (pc = "raised" \/ ~session.push_success) =>
                  "error" \in DOMAIN session.result

\* C19: when push_to_livepeer ends in failure the session still waits for
\* the cache task to end, and when that returns its map, the map is in the
\* result and the server the session started was drained and closed.
C19_PushFailureIsNotFatal ==
    (/\ session.pc = "returned"
     /\ session.cache_task = "created"
     /\ session.push \in {"missing_file", "exit_code", "exception"}) =>
        /\ ~session.push_success
        /\ run = 1
        /\ pc \in {"returned", "raised"}
        /\ pc = "returned" =>
               /\ session.result.local_playback_urls = local_urls
               /\ session.server_runner = "runner" =>
                      (Done("drained") /\ site = "closed")

\* ffmpeg could not be started, and the session returned the map of both
\* profiles after the server was drained and closed
C19_Witness ==
    /\ session.pc = "returned"
    /\ session.push = "exception"
    /\ DOMAIN session.result.local_playback_urls = {"720p", "480p"}
    /\ Done("drained")
    /\ site = "closed"

\* C20: stream_video_to_livepeer never raises, and the result it returns
\* shows each failure: of the allocation, of the push, of the cache task.
C20_ResultShowsEveryFailure ==
    /\ session.pc /= "raised"
    /\ session.pc = "returned" =>
           /\ session.create /= "ok" =>
                  (~session.result.success /\ "error" \in DOMAIN session.result)
           /\ (Done("fill_created") /\ pc = "raised") =>
                  "error" \in DOMAIN session.result
           /\ (Done("push_joined") /\ ~session.push_success) =>
                  \/ "error" \in DOMAIN session.result
                  \/ DOMAIN session.result \ C17_OtherEntries /= {}

\* C21: a session that returns has shut down the server it started, also
\* when the push or the cache task failed after the server was started.
C21_ReturnedSessionClosedItsServer ==
    (session.pc = "returned" /\ session.server_runner = "runner") =>
        (site = "closed" /\ Done("closed"))

\* C22: the session sleeps its drain window, and the server is shut down,
\* only after the push task has ended and fetch_and_cache_hls has returned
\* its map.
C22_DrainOnlyAfterPushAndFill ==
    (session.pc = "draining" \/ Done("drained") \/ site = "closed") =>
        /\ session.push_task = "done"
        /\ run = 1
        /\ pc = "returned"
        /\ session.result.local_playback_urls = local_urls

\* the session is in its drain window after a push that failed and a fill
\* that cached both profiles
C22_Witness ==
    /\ session.pc = "draining"
    /\ site = "listening"
    /\ session.push = "exit_code"
    /\ DOMAIN local_urls = {"720p", "480p"}

\* the session states in their order, as the log of a session shows them
C23_Order ==
    << "allocated", "push_started", "warmed_up", "server_started", "fill_created",
       "push_joined", "fill_joined", "drained", "closed" >>

\* C23: what a session has done is always a beginning of the order Created,
\* Pushing+Allocated, WarmingUp, Serving+Filling, Draining, Closed, or such
\* a beginning ended by the failure of a setup step (the allocation, the
\* start of the server); a session that returns without such a failure has
\* gone through the whole order.
C23_SessionKeepsTheOrder ==
    LET n      == Len(session.log)
        failed == n > 0 /\ session.log[n] \in {"failed", "raised"}
        steps  == IF failed THEN SubSeq(session.log, 1, n - 1) ELSE session.log
    IN  /\ Len(steps) <= Len(C23_Order)
        /\ steps = SubSeq(C23_Order, 1, Len(steps))
        /\ failed => (session.create /= "ok" \/ site = "failed")
        /\ (session.pc = "returned" /\ ~failed) => steps = C23_Order

\* C23 for the sessions that run with caching enabled: they too keep the
\* order of C23_SessionKeepsTheOrder.
C23_EnabledSessionKeepsTheOrder == cacheEnabled => C23_SessionKeepsTheOrder

\* The session under the event loop of asyncio.run (line 334): a task that
\* can go on is run, and the push, every request of the fill, the two
\* sleeps and the start of the server end (with a result or a failure), so
\* a step that stays possible is taken.
SpecSessionFair == InitSession /\ [][NextSession]_vars /\ WF_vars(NextSession)

\* C24: when the push and every fetch end, every session returns its
\* result record.
C24_SessionReturns == <>(session.pc = "returned")

\* a session has returned its record after a push that raised, a fill that
\* raised and with the push task ended
C24_Witness ==
    /\ session.pc = "returned"
    /\ session.push = "exception"
    /\ pc = "raised"
    /\ "error" \in DOMAIN session.result

\* the local path of the segment the fill has opened and not yet written
C25_BeingWritten == SegmentPlan[playback[pi].name][lines[li]].key

\* C25: a request answered while the fill is between the opening and the
\* writing of a segment file does not get status 200 for that file.
C25_ReaderNeverSeesAPartialFile ==
    [][(/\ C12_Answered
        /\ pc = "body"
        /\ ServePlan[resp'.filename].key = C25_BeingWritten)
       => resp'.status /= 200]_vars

\* what C26 states for a reference line of a profile: the URL is the
\* remote directory of the playlist, "/" and the line; the local path is
\* the line below the directory of the profile below the cache root
C26_Stated ==
    [n \in Range(ProfileNames) |->
        [l \in AllLines |->
            [url |-> "https://cdn.livepeer.studio/hls/" \o PlaybackId \o "/" \o n
                         \o "/" \o l,
             key |-> AbsPath(LOCAL_CACHE_DIR \o "/" \o n \o "/" \o l)]]]

\* C26: every segment request of the run went to originBase + "/" + line,
\* and a request that succeeded left the body in the file
\* cacheRoot/profileName/line, inside the directories the line names.
C26_ReferenceIsFetchedAndStoredByItsLine ==
    \A k \in 1..Len(net) :
        net[k].kind = "segment" =>
            LET stated == C26_Stated[net[k].name][net[k].line]
            IN  /\ net[k].url = stated.url
                /\ net[k].ok =>
                       /\ stated.key \in DOMAIN files
                       /\ files[stated.key] = SegmentBytes(stated.url)
                       /\ PathTable[stated.key].dir \in dirs

\* the paths inside the directory of a profile, the directory included
C30_Inside ==
    { p \in DOMAIN PathTable :
          \E n \in Range(ProfileNames) :
              LET d == AbsPath(ProfileDir(n))
              IN  p = d \/ StartsWith(p, d \o "/") }

\* C30: every file, and every directory other than the cache root and the
\* directories above it, that exists after steps of the Cache Filler lies
\* inside the directory of a profile.
C30_FillStaysInsideTheProfileDirectory ==
    /\ DOMAIN files \subseteq C30_Inside
    /\ dirs \ (InitialDirs \cup CacheRootChain) \subseteq C30_Inside

(***************************************************************************)
(* pipeline.py: the configuration of DecentralizedVideoPipeline and        *)
(* process_video                                                           *)
(***************************************************************************)
\* starts of the pipeline (constructions of DecentralizedVideoPipeline) on
\* the same disk
MaxStarts == 2

\* os.environ, the variables lines 57-69 and 92-96 read: every one set, no
\* private key and no token, none set
EnvFull ==
    ("LIVEPEER_API_KEY" :> "lp-key") @@ ("WEB3STORAGE_TOKEN" :> "w3-token")
        @@ ("PRIVATE_KEY" :> "0xkey") @@ ("CONTRACT_ADDRESS" :> "0xc0")
EnvNoKey == ("LIVEPEER_API_KEY" :> "lp-key") @@ ("CONTRACT_ADDRESS" :> "0xc0")
EnvNone == EmptyMap
Environments == {EnvFull, EnvNoKey, EnvNone}

\* the variables that carry a secret
SecretNames == {"LIVEPEER_API_KEY", "WEB3STORAGE_TOKEN", "PRIVATE_KEY"}

\* os.environ.get(name, default)
EnvironGet(env, name, default) == IF name \in DOMAIN env THEN env[name] ELSE default

\* lines 47-71: default_config (of the sections directories and model and
\* of the fields cache_enabled, server_port and gateway nothing below
\* depends; they are left out)
DefaultConfig(env) ==
    [livepeer |-> [api_key     |-> EnvironGet(env, "LIVEPEER_API_KEY", ""),
                   stream_name |-> "decentralized-video-stream"],
     ipfs     |-> [service |-> "web3.storage",
                   token   |-> EnvironGet(env, "WEB3STORAGE_TOKEN", "")],
     ethereum |-> [provider_url     |-> EnvironGet(env, "PROVIDER_URL",
                                                   "http://localhost:8545"),
                   contract_address |-> EnvironGet(env, "CONTRACT_ADDRESS", ""),
                   private_key      |-> EnvironGet(env, "PRIVATE_KEY", "")]]

\* JSON null as the value of a section
Null == EmptyMap

\* the file config_path: absent, or holding a JSON object
NoFile == [exists |-> FALSE]
File(json) == [exists |-> TRUE, json |-> json]

\* config files a user has written: an ethereum section with an address
\* and a key, and an ethereum section that is null
UserConfig == [ethereum |-> [contract_address |-> "0xfile", private_key |-> "0xfilekey"]]
BrokenConfig == [ethereum |-> Null]
ConfigFiles == {NoFile, File(UserConfig), File(BrokenConfig)}

\* lines 134-140: _update_nested_dict(d, u) for sections whose fields are
\* strings: a section of u that is a dictionary is merged into the section
\* of d, any other value replaces it
UpdateNestedDict(d, u) ==
    [k \in DOMAIN d \cup DOMAIN u |->
        IF k \notin DOMAIN u THEN d[k]
        ELSE IF k \in DOMAIN d /\ DOMAIN u[k] /= {} THEN u[k] @@ d[k]
        ELSE u[k]]

\* lines 120-130: one field of one section set to "", when both exist
Blank(config, section, field) ==
    IF section \in DOMAIN config /\ field \in DOMAIN config[section]
       THEN [config EXCEPT ![section][field] = ""]
       ELSE config

\* (mutant) the private key is left in the copy
GetSafeConfig_KeepsPrivateKey(config) ==
    Blank(Blank(config, "ipfs", "token"), "livepeer", "api_key")

\* lines 115-132: _get_safe_config, a copy of config (json.loads of
\* json.dumps) with the three secrets blanked
GetSafeConfig(config) ==
    Blank(Blank(Blank(config, "ethereum", "private_key"), "ipfs", "token"),
          "livepeer", "api_key")

\* lines 92-97: the two variables read again after the file
EnvOverride(config, env) ==
    LET c1 == IF "LIVEPEER_API_KEY" \in DOMAIN env
                 THEN [config EXCEPT !["livepeer"]["api_key"] = env["LIVEPEER_API_KEY"]]
                 ELSE config
    IN  IF "WEB3STORAGE_TOKEN" \in DOMAIN env
           THEN [c1 EXCEPT !["ipfs"]["token"] = env["WEB3STORAGE_TOKEN"]]
           ELSE c1

\* how _save_config ends: the file written, or an exception of makedirs or
\* open that line 112 catches
SaveOutcomes == {"ok", "oserror"}

\* how reading the file ends: parsed, or an exception line 89 catches
LoadOutcomes == {"ok", "jsonerror"}

\* lines 35 and 43-113: DecentralizedVideoPipeline(config_path) up to
\* self.config, _load_config with the _save_config it calls.
\* Without a file the defaults are kept and their safe copy is saved; with
\* one its values are merged into the defaults.
LoadConfig ==
    /\ conf.state \in {"start", "loaded"}
    /\ conf.starts < MaxStarts
    /\ pipe.pc \in {"none", "returned"}
    /\ LET default == DefaultConfig(conf.env)
       IN  IF ~conf.disk.exists
           THEN \E outcome \in SaveOutcomes :
                    conf' = [conf EXCEPT
                                !.state   = "loaded",
                                !.starts  = @ + 1,
                                !.save    = outcome,
                                !.config  = EnvOverride(default, conf.env),
                                !.disk    = IF outcome = "ok"
                                               THEN File(GetSafeConfig(default))
                                               ELSE NoFile,
                                !.written = IF outcome = "ok"
                                               THEN Append(@, GetSafeConfig(default))
                                               ELSE @]
           ELSE \E outcome \in LoadOutcomes :
                    conf' = [conf EXCEPT
                                !.state  = "loaded",
                                !.starts = @ + 1,
                                !.save   = "",
                                !.config = EnvOverride(
                                               IF outcome = "ok"
                                                  THEN UpdateNestedDict(default, conf.disk.json)
                                                  ELSE default,
                                               conf.env)]
    /\ pipe' = [pc |-> "idle"]
    /\ UNCHANGED << fillVars, rw, relayVars >>

\* Python's None as a stage entry
None == EmptyMap

\* the argument input_path, and the path of lines 332-335
InputPath == "input/clip.mp4"
CompressedPath == "output/compressed_clip.mp4"

\* how compress_video ends
CompressOutcomes == {"ok", "exception"}

\* how livepeer.stream_video ends when process_video calls it: its
\* asyncio.run (livepeer-handler.py line 334) is called while the event
\* loop that runs process_video is running and raises RuntimeError
StreamOutcomes == {"loop_running"}

\* how run_ipfs_upload ends: the video is missing, node exits with a code
\* other than 0, the hash is taken from the output (or is not in it), or
\* output/metadata.json is returned (with or without a hash)
IpfsOutcomes ==
    {"missing_file", "exit_code", "parsed", "parsed_no_hash", "metadata", "metadata_no_hash"}
IpfsReturns == {"parsed", "parsed_no_hash", "metadata", "metadata_no_hash"}

\* (mutant) the compressed path is used whatever compress_video did
WorkingVideo_AlwaysCompressed(outcome) == CompressedPath

\* lines 345 and 353: working_video
WorkingVideo(outcome) == IF outcome = "ok" THEN CompressedPath ELSE InputPath

\* lines 338-351: result["compression"]
CompressionEntry(outcome) ==
    IF outcome = "ok" THEN [success |-> TRUE, output_path |-> CompressedPath]
    ELSE [success |-> FALSE, error |-> "compression failed"]

\* lines 371-376: result["streaming"] after an exception
StreamingEntry(outcome) ==
    [success |-> FALSE,
     error   |-> "asyncio.run() cannot be called from a running event loop"]

\* lines 196-210: what run_ipfs_upload returns (a hash that is None is "")
IpfsResult(outcome) ==
    IF outcome = "parsed"
       THEN [ipfsHash |-> "bafyout", title |-> "clip", description |-> "d"]
    ELSE IF outcome = "parsed_no_hash"
       THEN [ipfsHash |-> "", title |-> "clip", description |-> "d"]
    ELSE IF outcome = "metadata"
       THEN [ipfsHash |-> "bafymeta", title |-> "clip"]
    ELSE [title |-> "clip"]

\* lines 382-393: result["ipfs"]; in {"success": True, **ipfs_result} a key
\* of ipfs_result wins
IpfsEntry(outcome) ==
    IF outcome \in IpfsReturns THEN IpfsResult(outcome) @@ [success |-> TRUE]
    ELSE [success |-> FALSE, error |-> outcome]

\* (mutant) the registration does not look at the IPFS entry
RegistrationRuns_WithoutIpfs(register_blockchain, ipfs) == register_blockchain

\* line 396: register_blockchain and result["ipfs"] and result["ipfs"]["success"]
RegistrationRuns(register_blockchain, ipfs) ==
    /\ register_blockchain
    /\ DOMAIN ipfs /= {}
    /\ ipfs.success

\* metadata.get("ipfsHash") is truthy
HasHash(metadata) == "ipfsHash" \in DOMAIN metadata /\ metadata.ipfsHash /= ""

\* how register_on_blockchain ends: lines 217-231 in their order, then the
\* node process; an ethereum section that is null makes line 217 raise
RegisterOutcomes(config, metadata) ==
    IF "contract_address" \notin DOMAIN config.ethereum THEN {"config_error"}
    ELSE IF config.ethereum.contract_address = "" THEN {"no_contract"}
    ELSE IF config.ethereum.private_key = "" THEN {"no_key"}
    ELSE IF ~HasHash(metadata) THEN {"no_hash"}
    ELSE {"ok", "exit_code", "spawn_error"}

\* lines 217-282 and 399-406: result["blockchain"]
BlockchainEntry(outcome) ==
    IF outcome = "config_error" THEN [success |-> FALSE, error |-> "TypeError"]
    ELSE IF outcome = "no_contract"
       THEN [registered |-> FALSE, reason |-> "No contract address provided"]
    ELSE IF outcome = "no_key"
       THEN [registered |-> FALSE, reason |-> "No private key provided"]
    ELSE IF outcome = "no_hash"
       THEN [registered |-> FALSE, reason |-> "No IPFS hash in metadata"]
    ELSE IF outcome = "ok"
       THEN [registered |-> TRUE, videoId |-> "1", output |-> "ok"]
    ELSE [registered |-> FALSE, reason |-> outcome, error |-> outcome]

\* lines 284-327: process_video is called; a missing input returns the
\* initial result
ProcessVideo ==
    /\ conf.state = "loaded"
    /\ pipe.pc = "idle"
    /\ \E input_exists, stream, upload_to_ipfs, register_blockchain \in BOOLEAN :
           pipe' = [pc                  |-> IF input_exists THEN "compression"
                                                            ELSE "returned",
                    input_exists        |-> input_exists,
                    stream              |-> stream,
                    upload_to_ipfs      |-> upload_to_ipfs,
                    register_blockchain |-> register_blockchain,
                    working_video       |-> "",
                    outcome             |-> [compression |-> "", streaming |-> "",
                                             ipfs |-> "", blockchain |-> ""],
                    calls               |-> << >>,
                    result              |-> [input       |-> InputPath,
                                             compression |-> None,
                                             streaming   |-> None,
                                             ipfs        |-> None,
                                             blockchain  |-> None]]
    /\ UNCHANGED << fillVars, rw, relayVars, conf >>

\* lines 329-353: step 1
CompressVideo ==
    /\ pipe.pc = "compression"
    /\ \E outcome \in CompressOutcomes :
           pipe' = [pipe EXCEPT
                       !.pc                 = "streaming",
                       !.outcome.compression = outcome,
                       !.working_video      = WorkingVideo(outcome),
                       !.calls              = Append(@, [stage |-> "compression",
                                                         video |-> InputPath]),
                       !.result.compression = CompressionEntry(outcome)]
    /\ UNCHANGED << fillVars, rw, relayVars, conf >>

\* lines 355-376: step 2, when enabled
StreamVideo ==
    /\ pipe.pc = "streaming"
    /\ IF pipe.stream
       THEN \E outcome \in StreamOutcomes :
                pipe' = [pipe EXCEPT
                            !.pc                = "ipfs",
                            !.outcome.streaming = outcome,
                            !.calls             = Append(@, [stage |-> "streaming",
                                                             video |-> pipe.working_video]),
                            !.result.streaming  = StreamingEntry(outcome)]
       ELSE pipe' = [pipe EXCEPT !.pc = "ipfs"]
    /\ UNCHANGED << fillVars, rw, relayVars, conf >>

\* lines 378-393: step 3, when enabled
RunIpfsUpload ==
    /\ pipe.pc = "ipfs"
    /\ IF pipe.upload_to_ipfs
       THEN \E outcome \in IpfsOutcomes :
                pipe' = [pipe EXCEPT
                            !.pc           = "blockchain",
                            !.outcome.ipfs = outcome,
                            !.calls        = Append(@, [stage |-> "ipfs",
                                                        video |-> pipe.working_video]),
                            !.result.ipfs  = IpfsEntry(outcome)]
       ELSE pipe' = [pipe EXCEPT !.pc = "blockchain"]
    /\ UNCHANGED << fillVars, rw, relayVars, conf >>

\* lines 395-409: step 4, when enabled and the IPFS entry shows a success,
\* and the return of the result
RegisterOnBlockchain ==
    /\ pipe.pc = "blockchain"
    /\ IF RegistrationRuns(pipe.register_blockchain, pipe.result.ipfs)
       THEN \E outcome \in RegisterOutcomes(conf.config, pipe.result.ipfs) :
                pipe' = [pipe EXCEPT
                            !.pc                 = "returned",
                            !.outcome.blockchain = outcome,
                            !.calls              = Append(@, [stage |-> "blockchain",
                                                              video |-> pipe.working_video]),
                            !.result.blockchain  = BlockchainEntry(outcome)]
       ELSE pipe' = [pipe EXCEPT !.pc = "returned"]
    /\ UNCHANGED << fillVars, rw, relayVars, conf >>

InitPipeline ==
    /\ cacheEnabled = TRUE
    /\ playback = Playback({1, 2})
    /\ origin = Served(PlaylistE, PlaylistE)
    /\ FillIdle
    /\ rw = RwIdle
    /\ RelayIdle
    /\ \E env \in Environments, disk \in ConfigFiles :
           conf = [state |-> "start", env |-> env, disk |-> disk, config |-> Null,
                   starts |-> 0, save |-> "", written |-> << >>]
    /\ pipe = NoPipeline

NextPipeline ==
    \/ LoadConfig
    \/ ProcessVideo
    \/ CompressVideo
    \/ StreamVideo
    \/ RunIpfsUpload
    \/ RegisterOnBlockchain

SpecPipeline == InitPipeline /\ [][NextPipeline]_vars

(***************************************************************************)
(* Properties of the pipeline                                              *)
(***************************************************************************)
\* process_video has called the stage
Attempted(stage) == \E k \in 1..Len(pipe.calls) : pipe.calls[k].stage = stage

\* the IPFS upload step ran and run_ipfs_upload returned
IpfsSucceeded == pipe.upload_to_ipfs /\ pipe.outcome.ipfs \in IpfsReturns

\* C27: in process_video, register_on_blockchain is called, and
\* result["blockchain"] is something else than None, only when the
\* registration is enabled and the IPFS upload ran and succeeded.
C27_RegistrationNeedsIpfsSuccess ==
    "result" \in DOMAIN pipe =>
        ((Attempted("blockchain") \/ pipe.result.blockchain /= None)
            => (pipe.register_blockchain /\ IpfsSucceeded))

\* process_video has returned a registration that was made after an upload
\* that gave a hash
C27_Witness ==
    /\ pipe.pc = "returned"
    /\ pipe.outcome.ipfs = "parsed"
    /\ Attempted("blockchain")
    /\ pipe.outcome.blockchain = "ok"
    /\ pipe.result.blockchain.registered

\* the outcomes of a stage that are failures of it
C28_Failures ==
    [compression |-> {"exception"},
     streaming   |-> {"loop_running"},
     ipfs        |-> {"missing_file", "exit_code"},
     blockchain  |-> {"config_error", "exit_code", "spawn_error"}]

\* the entry of the stage says success false
C28_SuccessFalse(stage) ==
    /\ "success" \in DOMAIN pipe.result[stage]
    /\ ~pipe.result[stage].success

\* after a failed compression every later stage was called with the input
C28_OriginalInputAfterFailedCompression ==
    pipe.outcome.compression = "exception" =>
        \A k \in 1..Len(pipe.calls) : pipe.calls[k].video = InputPath

\* C28: when process_video has returned for an input that exists, every
\* stage that failed has success false in its entry, every enabled stage
\* was attempted whatever failed before it, and after a failed compression
\* the later stages worked on the original input.
C28_StageFailureIsRecordedAndNotFatal ==
    (pipe.pc = "returned" /\ pipe.input_exists) =>
        /\ \A stage \in DOMAIN C28_Failures :
               pipe.outcome[stage] \in C28_Failures[stage] => C28_SuccessFalse(stage)
        /\ pipe.stream => Attempted("streaming")
        /\ pipe.upload_to_ipfs => Attempted("ipfs")
        /\ (pipe.register_blockchain /\ pipe.upload_to_ipfs) => Attempted("blockchain")
        /\ C28_OriginalInputAfterFailedCompression

\* C28 as the code has it: a failed compression, streaming or upload has
\* success false in its entry; a registration that failed inside
\* register_on_blockchain has registered false and a reason (success false
\* only when the call itself raised); streaming and upload are attempted
\* whenever enabled, the registration exactly when it is enabled and the
\* upload succeeded; after a failed compression the later stages worked on
\* the original input.
C28_StageFailureIsRecordedWhereItHappens ==
    (pipe.pc = "returned" /\ pipe.input_exists) =>
        /\ \A stage \in {"compression", "streaming", "ipfs"} :
               pipe.outcome[stage] \in C28_Failures[stage] =>
                   (C28_SuccessFalse(stage) /\ "error" \in DOMAIN pipe.result[stage])
        /\ pipe.outcome.blockchain \in {"exit_code", "spawn_error"} =>
               /\ "success" \notin DOMAIN pipe.result.blockchain
               /\ ~pipe.result.blockchain.registered
               /\ pipe.result.blockchain.reason = pipe.outcome.blockchain
        /\ pipe.outcome.blockchain = "config_error" => C28_SuccessFalse("blockchain")
        /\ Attempted("compression")
        /\ pipe.stream <=> Attempted("streaming")
        /\ pipe.upload_to_ipfs <=> Attempted("ipfs")
        /\ (pipe.register_blockchain /\ IpfsSucceeded) <=> Attempted("blockchain")
        /\ C28_OriginalInputAfterFailedCompression

\* process_video has returned after a failed compression, a failed
\* streaming, an upload of the original input and a failed registration
C28_Witness ==
    /\ pipe.pc = "returned"
    /\ pipe.outcome.compression = "exception"
    /\ pipe.outcome.streaming = "loop_running"
    /\ pipe.outcome.ipfs = "metadata"
    /\ pipe.outcome.blockchain = "exit_code"
    /\ pipe.calls[Len(pipe.calls)].video = InputPath

\* the configuration the defaults give when no secret is in the environment
C29_Public(env) == DefaultConfig([n \in DOMAIN env \ SecretNames |-> env[n]])

\* C29: every configuration _save_config has written is the one a run
\* without secrets would write, with the three secret fields blank, and
\* the configuration in memory after the save holds the values of the
\* environment.
C29_SavedConfigHasNoSecrets ==
    conf.state = "loaded" =>
        /\ \A k \in 1..Len(conf.written) :
               /\ conf.written[k] = C29_Public(conf.env)
               /\ conf.written[k].ethereum.private_key = ""
               /\ conf.written[k].ipfs.token = ""
               /\ conf.written[k].livepeer.api_key = ""
        /\ conf.save /= "" =>
               /\ conf.config.ethereum.private_key = EnvironGet(conf.env, "PRIVATE_KEY", "")
               /\ conf.config.ipfs.token = EnvironGet(conf.env, "WEB3STORAGE_TOKEN", "")
               /\ conf.config.livepeer.api_key = EnvironGet(conf.env, "LIVEPEER_API_KEY", "")

\* a configuration was saved while the environment held the three secrets,
\* and the registration of that run was made with the private key
C29_Witness ==
    /\ conf.state = "loaded"
    /\ conf.env = EnvFull
    /\ conf.save = "ok"
    /\ conf.disk.exists
    /\ conf.config.ethereum.private_key = "0xkey"
    /\ pipe.pc = "returned"
    /\ pipe.outcome.blockchain = "ok"

(***************************************************************************)
(* Containment of the Local Content Server                                 *)
(***************************************************************************)
\* the filenames whose path is the cache root or lies below it
C31_UnderCacheRoot ==
    { f \in Filenames :
          LET root == AbsPath(LOCAL_CACHE_DIR)
          IN  ServePlan[f].key = root \/ StartsWith(ServePlan[f].key, root \o "/") }

\* C31: a request that is answered with a file or a directory listing
\* (status 200) names a path that is the cache root or lies below it.
C31_ServesOnlyTheCache ==
    [][(C12_Answered /\ resp'.status = 200) => resp'.filename \in C31_UnderCacheRoot]_vars

(***************************************************************************)
(* Sessions with caching disabled                                          *)
(***************************************************************************)
\* C32: in a session with caching disabled whose allocation succeeded no
\* server is started, drained or shut down, and the session returns only
\* after the push task has ended, with success true, no error and an empty
\* local_playback_urls.
C32_DisabledCachingSessionOnlyPushes ==
    (~cacheEnabled /\ session.create = "ok") =>
        /\ site \in {"down", "off"}
        /\ session.server_runner /= "runner"
        /\ session.pc /= "draining"
        /\ ~Done("server_started") /\ ~Done("drained") /\ ~Done("closed")
        /\ files = EmptyMap
        /\ session.pc = "returned" =>
               /\ session.push_task = "done"
               /\ Done("push_joined")
               /\ session.result.success
               /\ "error" \notin DOMAIN session.result
               /\ session.result.local_playback_urls = EmptyMap

\* a session with caching disabled has returned after a push that failed
\* and a cache task that returned the empty map
C32_Witness ==
    /\ ~cacheEnabled
    /\ session.create = "ok"
    /\ session.pc = "returned"
    /\ session.push = "exit_code"
    /\ run = 1
    /\ pc = "returned"
    /\ site = "off"

====
